---- MODULE Spec2Model ----
(***************************************************************************)
(* CRLite instantiation of the clubcard filter (src/crlite/query.rs and    *)
(* src/crlite/builder.rs): the query and builder adapters, the coverage    *)
(* (universe) predicate, the coverage document reader and the versioned    *)
(* serialization, together with the generic builder / ribbon / clubcard    *)
(* engine they plug into.                                                  *)
(*                                                                         *)
(* Representation.  A byte is a number in 0..255.  A u64 that the program  *)
(* compares or stores (timestamps, length prefixes, serial numbers made by *)
(* to_le_bytes) is its 8 little-endian bytes.  A 64-bit coefficient word   *)
(* is the set of its set bit positions, a subset of 0..63, so that the     *)
(* full width is kept.  Option<&[..]> is a record [some, list].            *)
(***************************************************************************)
EXTENDS Integers, Sequences, FiniteSets, TLC

VARIABLES
    hashSeed,        \* which digest function of the modelled family stands for SHA-256
    phase,           \* position of the build sequence / which operation family runs
    approxBuilders,  \* block ids for which get_approx_builder was called
    approxItems,     \* items inserted into approximate builders
    exactBuilders,   \* block ids for which get_exact_builder was called
    exactItems,      \* items inserted into exact builders
    approxRibbons,   \* builder's merged table block id -> approximate ribbon
    exactRibbons,    \* builder's merged table block id -> exact ribbon
    clubcard,        \* the built Clubcard (NoClubcard before build)
    arg,             \* input of the last operation applied to a value
    ret              \* its outcome

vars == <<hashSeed, phase, approxBuilders, approxItems, exactBuilders, exactItems,
          approxRibbons, exactRibbons, clubcard, arg, ret>>

buildVars == <<approxBuilders, approxItems, exactBuilders, exactItems,
               approxRibbons, exactRibbons, clubcard>>

(***************************************************************************)
(* Program constants                                                       *)
(***************************************************************************)
W == 4
WordBits == 64
WordBytes == 8
IdLen == 32
DigestLen == 32
SERIALIZATION_VERSION == 65535
VersionLen == 2

(***************************************************************************)
(* Bounds of the model                                                     *)
(***************************************************************************)
NumBlocks == 1      \* issuers presented to the builder are Fill(0..NumBlocks-1)
UniverseSize == 2   \* serial numbers of a block's universe are 0..UniverseSize-1
MaxM == 3           \* solution widths tried on the equation derivation are 0..MaxM
MaxRecords == 2     \* records in a coverage document
MaxTimestamps == 2  \* (log id, timestamp) pairs a query carries
MaxSeed == 2        \* digest functions 0..MaxSeed

(***************************************************************************)
(* Bytes, u64 values, words                                                *)
(***************************************************************************)
Fill(b) == [i \in 1..IdLen |-> b]

Bit(b, k) == (b \div (2 ^ k)) % 2

\* n.to_le_bytes() for a usize / u64 n (n below 2^31 in the model)
to_le_bytes(n) ==
    [i \in 1..WordBytes |->
        IF i <= 3 THEN (n \div (256 ^ (i - 1))) % 256
        ELSE IF i = 4 THEN n \div 16777216
        ELSE 0]

U64Max == [i \in 1..WordBytes |-> 255]

\* a <= b on u64 values given as little-endian bytes
RECURSIVE U64LeFrom(_, _, _)
U64LeFrom(a, b, i) ==
    IF i = 0 THEN TRUE
    ELSE IF a[i] < b[i] THEN TRUE
    ELSE IF a[i] > b[i] THEN FALSE
    ELSE U64LeFrom(a, b, i - 1)

U64Le(a, b) == U64LeFrom(a, b, WordBytes)

\* u64::from_le_bytes as a coefficient word: the set of set bits
from_le_bytes(bs) ==
    {p \in 0..(WordBits - 1) : Bit(bs[(p \div 8) + 1], p % 8) = 1}

\* byte i (1..8) of a word, little-endian
WordByte(word, i) ==
    LET base == WordBytes * (i - 1)
    IN (IF base \in word THEN 1 ELSE 0) + (IF base + 1 \in word THEN 2 ELSE 0)
       + (IF base + 2 \in word THEN 4 ELSE 0) + (IF base + 3 \in word THEN 8 ELSE 0)
       + (IF base + 4 \in word THEN 16 ELSE 0) + (IF base + 5 \in word THEN 32 ELSE 0)
       + (IF base + 6 \in word THEN 64 ELSE 0) + (IF base + 7 \in word THEN 128 ELSE 0)

\* (word as usize) % modulus for modulus >= 1 on a 64-bit target: Horner's rule
\* from the most significant byte down, so that no intermediate value is large
WordMod(word, modulus) ==
    LET r8 == WordByte(word, 8) % modulus
        r7 == (r8 * 256 + WordByte(word, 7)) % modulus
        r6 == (r7 * 256 + WordByte(word, 6)) % modulus
        r5 == (r6 * 256 + WordByte(word, 5)) % modulus
        r4 == (r5 * 256 + WordByte(word, 4)) % modulus
        r3 == (r4 * 256 + WordByte(word, 3)) % modulus
        r2 == (r3 * 256 + WordByte(word, 2)) % modulus
    IN (r2 * 256 + WordByte(word, 1)) % modulus

Max2(x, y) == IF x >= y THEN x ELSE y

SeqsUpTo(S, n) == UNION {[1..k -> S] : k \in 0..n}

Rep(c, n) == [i \in 1..n |-> c]

(***************************************************************************)
(* SHA-256.  The digest function is a library; it is modelled as a family  *)
(* of deterministic functions from byte strings to 32-byte digests, one    *)
(* per hashSeed.  Seed 0 ignores every byte after the first IdLen bytes,   *)
(* so all serials of an issuer collide under it: it stands for a hash      *)
(* collision.  The other seeds depend on every input byte.                 *)
(***************************************************************************)
MixAt(data, i) ==
    IF i > Len(data) THEN 0
    ELSE (IF i <= IdLen THEN i ELSE hashSeed * i) * data[i]

RECURSIVE MixFrom(_, _)
MixFrom(data, done) ==
    IF done >= Len(data) THEN 0
    ELSE MixAt(data, done + 1) + MixAt(data, done + 2) + MixAt(data, done + 3)
         + MixAt(data, done + 4) + MixAt(data, done + 5) + MixAt(data, done + 6)
         + MixAt(data, done + 7) + MixAt(data, done + 8) + MixFrom(data, done + 8)

Sha256(data) ==
    LET mix == MixFrom(data, 0)
    IN [j \in 1..DigestLen |->
            (mix * (j + hashSeed) + j * j * hashSeed + (mix \div 7)) % 256]

(***************************************************************************)
(* Equation<4>: start, four coefficient words, target bit                  *)
(***************************************************************************)
homogeneous(start, coeffs) == [s |-> start, a |-> coeffs, b |-> 0]

(***************************************************************************)
(* CRLiteQuery and CRLiteBuilderItem                                       *)
(***************************************************************************)
None == [some |-> FALSE, list |-> <<>>]
Some(l) == [some |-> TRUE, list |-> l]

CRLiteQuery(issuer, serial, log_timestamps) ==
    [issuer |-> issuer, serial |-> serial, log_timestamps |-> log_timestamps]

revoked(issuer, serial) == [issuer |-> issuer, serial |-> serial, revoked |-> TRUE]

not_revoked(issuer, serial) == [issuer |-> issuer, serial |-> serial, revoked |-> FALSE]

\* AsQuery::block
block_first(q) == Fill(0)

block(q) == q.issuer

\* AsQuery::discriminant
discriminant(q) == q.serial

\* the four little-endian words of a digest, the low bit of the first forced
DigestWords(digest) ==
    LET words == [i \in 1..W |->
                from_le_bytes(SubSeq(digest, WordBytes * (i - 1) + 1, WordBytes * i))]
    IN [words EXCEPT ![1] = @ \cup {0}]

\* AsQuery::as_query
as_query_with_timestamps(q, m) ==
    LET at == DigestWords(Sha256(q.issuer \o q.serial \o <<Len(q.log_timestamps.list)>>))
    IN homogeneous(WordMod(at[W], Max2(1, m)), at)

as_query_unforced(q, m) ==
    LET dg == Sha256(q.issuer \o q.serial)
        raw == [i \in 1..W |->
                from_le_bytes(SubSeq(dg, WordBytes * (i - 1) + 1, WordBytes * i))]
    IN homogeneous(WordMod(raw[W], Max2(1, m)), raw)

as_query(q, m) ==
    LET a == DigestWords(Sha256(q.issuer \o q.serial))
        s == WordMod(a[W], Max2(1, m))
    IN homogeneous(s, a)

\* impl From<&CRLiteBuilderItem> for CRLiteQuery
FromItem(item) == CRLiteQuery(item.issuer, item.serial, None)

\* as_equation of a CRLiteQuery: the query's own equation
query_as_equation(q, m) == as_query(q, m)

\* Filterable::as_equation of a CRLiteBuilderItem
as_equation_flipped(item, m) ==
    [query_as_equation(FromItem(item), m) EXCEPT !.b = IF item.revoked THEN 1 ELSE 0]

as_equation(item, m) ==
    LET eq == query_as_equation(FromItem(item), m)
    IN [eq EXCEPT !.b = IF item.revoked THEN 0 ELSE 1]

\* Filterable::block_id, discriminant, included
block_id(item) == item.issuer

item_discriminant(item) == item.serial

included(item) == item.revoked

(***************************************************************************)
(* CRLiteCoverage and the universe predicate                               *)
(***************************************************************************)
EmptyMap == [x \in {} |-> <<>>]

MapInsert(map, k, v) == [x \in (DOMAIN map) \cup {k} |-> IF x = k THEN v ELSE map[x]]

\* Queryable::in_universe
RECURSIVE InUniverseStrictFrom(_, _, _)
InUniverseStrictFrom(l, universe, i) ==
    IF i > Len(l) THEN FALSE
    ELSE IF /\ l[i][1] \in DOMAIN universe
            /\ U64Le(universe[l[i][1]][1], l[i][2])
            /\ universe[l[i][1]][1] # l[i][2]
            /\ U64Le(l[i][2], universe[l[i][1]][2])
         THEN TRUE
         ELSE InUniverseStrictFrom(l, universe, i + 1)

in_universe_strict(q, universe) ==
    IF ~q.log_timestamps.some THEN FALSE
    ELSE InUniverseStrictFrom(q.log_timestamps.list, universe, 1)

RECURSIVE InUniverseFrom(_, _, _)
InUniverseFrom(l, universe, i) ==
    IF i > Len(l) THEN FALSE
    ELSE LET log_id == l[i][1]
             timestamp == l[i][2]
         IN IF log_id \in DOMAIN universe
            THEN LET low == universe[log_id][1]
                     high == universe[log_id][2]
                 IN IF U64Le(low, timestamp) /\ U64Le(timestamp, high)
                    THEN TRUE
                    ELSE InUniverseFrom(l, universe, i + 1)
            ELSE InUniverseFrom(l, universe, i + 1)

in_universe(q, universe) ==
    IF ~q.log_timestamps.some THEN FALSE
    ELSE InUniverseFrom(q.log_timestamps.list, universe, 1)

(***************************************************************************)
(* Standard base64 with padding (base64::prelude::BASE64_STANDARD.decode).  *)
(* A string is a sequence of one-character strings.  The symbol table      *)
(* holds the symbols the documents below use; any other character is not   *)
(* a symbol, as in the full alphabet.                                      *)
(***************************************************************************)
B64Value(c) ==
    CASE c = "A" -> 0 [] c = "B" -> 1 [] c = "E" -> 4 [] c = "Q" -> 16
      [] c = "g" -> 32 [] c = "/" -> 63 [] OTHER -> -1

B64Err == [ok |-> FALSE, bytes |-> <<>>]

B64Decode(str) ==
    LET n == Len(str)
        pad == IF n >= 1 /\ str[n] = "="
               THEN (IF n >= 2 /\ str[n - 1] = "=" THEN 2 ELSE 1)
               ELSE 0
        syms == n - pad
        vals == [i \in 1..syms |-> B64Value(str[i])]
        ByteAt(k) ==
            LET first == ((8 * k) \div 6) + 1
                off == (8 * k) % 6
            IN CASE off = 0 -> vals[first] * 4 + (vals[first + 1] \div 16)
                 [] off = 2 -> (vals[first] % 16) * 16 + (vals[first + 1] \div 4)
                 [] off = 4 -> (vals[first] % 4) * 64 + vals[first + 1]
        trailingZero ==
            CASE pad = 0 -> TRUE
              [] pad = 1 -> vals[syms] % 4 = 0
              [] pad = 2 -> vals[syms] % 16 = 0
    IN IF n % 4 # 0 THEN B64Err
       ELSE IF \E i \in 1..syms : vals[i] < 0 THEN B64Err
       ELSE IF ~trailingZero THEN B64Err
       ELSE [ok |-> TRUE, bytes |-> [k \in 1..((syms * 6) \div 8) |-> ByteAt(k - 1)]]

(***************************************************************************)
(* The coverage document.  A document is a JSON value: either not a list   *)
(* at all, or a list of objects; an object gives each of the three fields  *)
(* a string, an unsigned number, a negative number, or leaves it out.      *)
(***************************************************************************)
JsonString(chars) == [t |-> "string", s |-> chars, n |-> to_le_bytes(0)]
JsonNumber(u64) == [t |-> "number", s |-> <<>>, n |-> u64]
JsonNegative == [t |-> "negative", s |-> <<>>, n |-> to_le_bytes(0)]
JsonAbsent == [t |-> "absent", s |-> <<>>, n |-> to_le_bytes(0)]

JsonObject(id, max, min) == [LogID |-> id, MaxTimestamp |-> max, MinTimestamp |-> min]

\* serde_json::from_reader into Vec<MozillaCtLogsJson>: every object must give
\* LogID a string and both timestamps a u64, or the whole document is refused
serde_json_from_reader(doc) ==
    IF /\ doc.list
       /\ \A i \in 1..Len(doc.records) :
            /\ doc.records[i].LogID.t = "string"
            /\ doc.records[i].MaxTimestamp.t = "number"
            /\ doc.records[i].MinTimestamp.t = "number"
    THEN [ok |-> TRUE,
          entries |-> [i \in 1..Len(doc.records) |->
                        [LogID |-> doc.records[i].LogID.s,
                         MaxTimestamp |-> doc.records[i].MaxTimestamp.n,
                         MinTimestamp |-> doc.records[i].MinTimestamp.n]]]
    ELSE [ok |-> FALSE, entries |-> <<>>]

\* CRLiteCoverage::from_mozilla_ct_logs_json
RECURSIVE CoverageLoopBreak(_, _, _)
CoverageLoopBreak(json_entries, i, coverage) ==
    IF i > Len(json_entries) THEN coverage
    ELSE LET dec == B64Decode(json_entries[i].LogID)
         IN IF dec.ok /\ Len(dec.bytes) = IdLen
            THEN CoverageLoopBreak(json_entries, i + 1,
                    MapInsert(coverage, dec.bytes,
                              <<json_entries[i].MinTimestamp, json_entries[i].MaxTimestamp>>))
            ELSE coverage

from_mozilla_ct_logs_json_break(reader) ==
    LET parsedb == serde_json_from_reader(reader)
    IN IF ~parsedb.ok THEN EmptyMap ELSE CoverageLoopBreak(parsedb.entries, 1, EmptyMap)

RECURSIVE CoverageLoop(_, _, _)
CoverageLoop(json_entries, i, coverage) ==
    IF i > Len(json_entries) THEN coverage
    ELSE LET decoded == B64Decode(json_entries[i].LogID)
         IN IF decoded.ok /\ Len(decoded.bytes) = IdLen
            THEN CoverageLoop(json_entries, i + 1,
                    MapInsert(coverage, decoded.bytes,
                              <<json_entries[i].MinTimestamp, json_entries[i].MaxTimestamp>>))
            ELSE CoverageLoop(json_entries, i + 1, coverage)

from_mozilla_ct_logs_json(reader) ==
    LET parsed == serde_json_from_reader(reader)
    IN IF ~parsed.ok THEN EmptyMap ELSE CoverageLoop(parsed.entries, 1, EmptyMap)

(***************************************************************************)
(* The ribbon solver.  An equation's row is the set of solution bits its   *)
(* coefficient words select, word i covering the 64 bits that begin at     *)
(* start + 64 * i; evaluating a solution on an equation is the parity of   *)
(* the selected bits.  A solution is the set of its set bits.              *)
(***************************************************************************)
Row(eq) == UNION {{eq.s + WordBits * (i - 1) + k : k \in eq.a[i]} : i \in 1..W}

eval(solution, eq) == Cardinality(Row(eq) \cap solution) % 2

SymDiff(A, B) == (A \ B) \cup (B \ A)

MaxOf(S) == CHOOSE x \in S : \A y \in S : y <= x

SolveFailed == [ok |-> FALSE, solution |-> {}]

\* Gaussian elimination over GF(2) on a set of [row, b]: a solution that gives
\* every row its target, or failure when the targets are inconsistent
RECURSIVE Solve(_)
Solve(system) ==
    IF system = {} THEN [ok |-> TRUE, solution |-> {}]
    ELSE LET pivotEq == CHOOSE e \in system : TRUE
         IN IF pivotEq.row = {}
            THEN (IF pivotEq.b = 1 THEN SolveFailed ELSE Solve(system \ {pivotEq}))
            ELSE LET pivot == MaxOf(pivotEq.row)
                     reduced == {IF pivot \in e.row
                                 THEN [row |-> SymDiff(e.row, pivotEq.row),
                                       b |-> (e.b + pivotEq.b) % 2]
                                 ELSE e : e \in system \ {pivotEq}}
                     sub == Solve(reduced)
                 IN IF ~sub.ok THEN SolveFailed
                    ELSE [ok |-> TRUE,
                          solution |->
                            IF Cardinality(pivotEq.row \cap sub.solution) % 2 = pivotEq.b
                            THEN sub.solution
                            ELSE sub.solution \cup {pivot}]

\* the ribbon of a builder's items at width m
RibbonFrom(items, m) ==
    LET solved == Solve({[row |-> Row(as_equation(it, m)), b |-> as_equation(it, m).b]
                            : it \in items})
    IN [ok |-> solved.ok, m |-> m, solution |-> solved.solution]

\* ApproximateRibbon::from: the block's revoked items
ApproximateRibbonFrom(items) == RibbonFrom(items, Cardinality(items))

\* ExactRibbon::from: every item of the block's universe
ExactRibbonFrom(items) == RibbonFrom(items, Cardinality(items))

ItemsOf(items, issuer) == {it \in items : block_id(it) = issuer}

(***************************************************************************)
(* Clubcard: the two ribbon tables, the universe metadata (coverage) and   *)
(* the partition metadata ().                                              *)
(***************************************************************************)
NoClubcard == [built |-> FALSE]

Clubcard(approx, exact, universe) ==
    [built |-> TRUE, approx |-> approx, exact |-> exact,
     universe |-> universe, partition |-> <<>>]

\* Clubcard::unchecked_contains
unchecked_contains(card, q) ==
    IF block(q) \notin DOMAIN card.exact THEN FALSE
    ELSE eval(card.exact[block(q)].solution, as_query(q, card.exact[block(q)].m)) = 0

\* Clubcard::contains
contains_filter_first(card, q) ==
    IF unchecked_contains(card, q) THEN "Member"
    ELSE IF ~in_universe(q, card.universe) THEN "NotInUniverse"
    ELSE "Nonmember"

contains(card, q) ==
    IF ~in_universe(q, card.universe) THEN "NotInUniverse"
    ELSE IF unchecked_contains(card, q) THEN "Member"
    ELSE "Nonmember"

(***************************************************************************)
(* Serialization.  The body is the bincode encoding of the Clubcard        *)
(* record, field after field: the approximate table, the exact table, the  *)
(* coverage map, and nothing for ().  bincode writes a u64 or usize as 8   *)
(* little-endian bytes, a byte array [u8; 32] as its bytes, a Vec or a map *)
(* as its length (u64) followed by its elements.  The ribbon tables are    *)
(* written in ascending block order; the coverage HashMap is written in    *)
(* the order its iterator yields, which the caller of to_bytes passes as   *)
(* an enumeration of its keys.                                             *)
(***************************************************************************)
\* number of 64-bit words of a solution of width m
SolutionWords(m) == ((Max2(1, m) - 1 + (W * WordBits - 1)) \div WordBits) + 1

\* the bytes of a set of bit positions, nbytes of them
BitsToBytes(bits, nbytes) ==
    [j \in 1..nbytes |->
        (IF 8 * (j - 1) \in bits THEN 1 ELSE 0) + (IF 8 * (j - 1) + 1 \in bits THEN 2 ELSE 0)
        + (IF 8 * (j - 1) + 2 \in bits THEN 4 ELSE 0) + (IF 8 * (j - 1) + 3 \in bits THEN 8 ELSE 0)
        + (IF 8 * (j - 1) + 4 \in bits THEN 16 ELSE 0) + (IF 8 * (j - 1) + 5 \in bits THEN 32 ELSE 0)
        + (IF 8 * (j - 1) + 6 \in bits THEN 64 ELSE 0) + (IF 8 * (j - 1) + 7 \in bits THEN 128 ELSE 0)]

BytesToBits(bytes) ==
    {p \in 0..(8 * Len(bytes) - 1) : Bit(bytes[(p \div 8) + 1], p % 8) = 1}

EncodeRibbon(ribbon) ==
    to_le_bytes(ribbon.m) \o to_le_bytes(SolutionWords(ribbon.m))
    \o BitsToBytes(ribbon.solution, WordBytes * SolutionWords(ribbon.m))

LeastKey(keys) == CHOOSE k \in keys : \A other \in keys : k[1] <= other[1]

RECURSIVE EncodeTableEntries(_, _)
EncodeTableEntries(table, keys) ==
    IF keys = {} THEN <<>>
    ELSE to_le_bytes(Len(LeastKey(keys))) \o LeastKey(keys)
         \o EncodeRibbon(table[LeastKey(keys)])
         \o EncodeTableEntries(table, keys \ {LeastKey(keys)})

EncodeTable(table) ==
    to_le_bytes(Cardinality(DOMAIN table)) \o EncodeTableEntries(table, DOMAIN table)

RECURSIVE EncodeCoverageEntries(_, _, _)
EncodeCoverageEntries(universe, order, i) ==
    IF i > Len(order) THEN <<>>
    ELSE order[i] \o universe[order[i]][1] \o universe[order[i]][2]
         \o EncodeCoverageEntries(universe, order, i + 1)

EncodeCoverage(universe, order) ==
    to_le_bytes(Len(order)) \o EncodeCoverageEntries(universe, order, 1)

\* bincode::serialize_into(&mut out, self)
bincode_serialize(card, order) ==
    EncodeTable(card.approx) \o EncodeTable(card.exact) \o EncodeCoverage(card.universe, order)

\* the enumerations a HashMap's iterator can yield
KeyOrders(map) ==
    {order \in [1..Cardinality(DOMAIN map) -> DOMAIN map] :
        \A i, j \in 1..Cardinality(DOMAIN map) : i # j => order[i] # order[j]}

\* u16::to_le_bytes
u16_to_le_bytes(n) == <<n % 256, n \div 256>>

\* u16::from_le_bytes
u16_from_le_bytes(two) == two[1] + 256 * two[2]

\* Clubcard::to_bytes
to_bytes_untagged(card, order) ==
    [tag |-> "Ok", bytes |-> bincode_serialize(card, order)]

to_bytes(card, order) ==
    [tag |-> "Ok",
     bytes |-> u16_to_le_bytes(SERIALIZATION_VERSION) \o bincode_serialize(card, order)]

\* Decoding.  A reader returns [ok, pos, val]: whether the bytes were there, the
\* position after them, and the value read.
Eof == [ok |-> FALSE, pos |-> 0, val |-> <<>>]

ReadBytes(bs, pos, n) ==
    IF pos + n - 1 > Len(bs) THEN Eof
    ELSE [ok |-> TRUE, pos |-> pos + n, val |-> SubSeq(bs, pos, pos + n - 1)]

\* a u64 read as a count; one of 2^24 or more stands as 2^24, beyond every buffer
CountOf(u64) ==
    IF u64[4] = 0 /\ u64[5] = 0 /\ u64[6] = 0 /\ u64[7] = 0 /\ u64[8] = 0
    THEN u64[1] + 256 * u64[2] + 65536 * u64[3]
    ELSE 256 * 65536

ReadRibbon(bs, pos) ==
    LET rdM == ReadBytes(bs, pos, WordBytes)
    IN IF ~rdM.ok THEN Eof
       ELSE LET rdN == ReadBytes(bs, rdM.pos, WordBytes)
            IN IF ~rdN.ok THEN Eof
               ELSE LET rdW == ReadBytes(bs, rdN.pos, WordBytes * CountOf(rdN.val))
                    IN IF ~rdW.ok THEN Eof
                       ELSE [ok |-> TRUE, pos |-> rdW.pos,
                             val |-> [m |-> CountOf(rdM.val),
                                      solution |-> BytesToBits(rdW.val)]]

ReadTableEntry(bs, pos) ==
    LET rdL == ReadBytes(bs, pos, WordBytes)
    IN IF ~rdL.ok THEN Eof
       ELSE LET rdK == ReadBytes(bs, rdL.pos, CountOf(rdL.val))
            IN IF ~rdK.ok THEN Eof
               ELSE LET rdR == ReadRibbon(bs, rdK.pos)
                    IN IF ~rdR.ok THEN Eof
                       ELSE [ok |-> TRUE, pos |-> rdR.pos,
                             val |-> [key |-> rdK.val, ribbon |-> rdR.val]]

RECURSIVE ReadTableEntries(_, _, _, _)
ReadTableEntries(bs, pos, count, table) ==
    IF count = 0 THEN [ok |-> TRUE, pos |-> pos, val |-> table]
    ELSE LET rdE == ReadTableEntry(bs, pos)
         IN IF ~rdE.ok THEN Eof
            ELSE ReadTableEntries(bs, rdE.pos, count - 1,
                                  MapInsert(table, rdE.val.key, rdE.val.ribbon))

ReadTable(bs, pos) ==
    LET rdC == ReadBytes(bs, pos, WordBytes)
    IN IF ~rdC.ok THEN Eof
       ELSE IF CountOf(rdC.val) > Len(bs) THEN Eof
       ELSE ReadTableEntries(bs, rdC.pos, CountOf(rdC.val), EmptyMap)

ReadCoverageEntry(bs, pos) ==
    LET rdId == ReadBytes(bs, pos, IdLen)
    IN IF ~rdId.ok THEN Eof
       ELSE LET rdLow == ReadBytes(bs, rdId.pos, WordBytes)
            IN IF ~rdLow.ok THEN Eof
               ELSE LET rdHigh == ReadBytes(bs, rdLow.pos, WordBytes)
                    IN IF ~rdHigh.ok THEN Eof
                       ELSE [ok |-> TRUE, pos |-> rdHigh.pos,
                             val |-> [key |-> rdId.val,
                                      interval |-> <<rdLow.val, rdHigh.val>>]]

RECURSIVE ReadCoverageEntries(_, _, _, _)
ReadCoverageEntries(bs, pos, count, universe) ==
    IF count = 0 THEN [ok |-> TRUE, pos |-> pos, val |-> universe]
    ELSE LET rdP == ReadCoverageEntry(bs, pos)
         IN IF ~rdP.ok THEN Eof
            ELSE ReadCoverageEntries(bs, rdP.pos, count - 1,
                                     MapInsert(universe, rdP.val.key, rdP.val.interval))

ReadCoverage(bs, pos) ==
    LET rdU == ReadBytes(bs, pos, WordBytes)
    IN IF ~rdU.ok THEN Eof
       ELSE IF CountOf(rdU.val) > Len(bs) THEN Eof
       ELSE ReadCoverageEntries(bs, rdU.pos, CountOf(rdU.val), EmptyMap)

\* bincode::deserialize(rest): bytes after the record are ignored
bincode_deserialize(rest) ==
    LET rdApprox == ReadTable(rest, 1)
    IN IF ~rdApprox.ok THEN [ok |-> FALSE, card |-> NoClubcard]
       ELSE LET rdExact == ReadTable(rest, rdApprox.pos)
            IN IF ~rdExact.ok THEN [ok |-> FALSE, card |-> NoClubcard]
               ELSE LET rdCov == ReadCoverage(rest, rdExact.pos)
                    IN IF ~rdCov.ok THEN [ok |-> FALSE, card |-> NoClubcard]
                       ELSE [ok |-> TRUE,
                             card |-> Clubcard(rdApprox.val, rdExact.val, rdCov.val)]

Err(e) == [tag |-> e, card |-> NoClubcard]

\* Clubcard::from_bytes.  split_at panics when the buffer is shorter than its
\* argument, before the length test on version_bytes is reached.
from_bytes_body_first(bytes) ==
    IF Len(bytes) < VersionLen THEN [tag |-> "Panic", card |-> NoClubcard]
    ELSE IF ~bincode_deserialize(SubSeq(bytes, VersionLen + 1, Len(bytes))).ok
         THEN Err("Deserialize")
    ELSE IF u16_from_le_bytes(SubSeq(bytes, 1, VersionLen)) # SERIALIZATION_VERSION
         THEN Err("UnsupportedVersion")
    ELSE [tag |-> "Ok",
          card |-> bincode_deserialize(SubSeq(bytes, VersionLen + 1, Len(bytes))).card]

from_bytes(bytes) ==
    IF Len(bytes) < VersionLen THEN [tag |-> "Panic", card |-> NoClubcard]
    ELSE LET version_bytes == SubSeq(bytes, 1, VersionLen)
             rest == SubSeq(bytes, VersionLen + 1, Len(bytes))
         IN IF Len(version_bytes) # VersionLen THEN Err("Deserialize")
            ELSE IF u16_from_le_bytes(version_bytes) # SERIALIZATION_VERSION
                 THEN Err("UnsupportedVersion")
            ELSE LET body == bincode_deserialize(rest)
                 IN IF body.ok THEN [tag |-> "Ok", card |-> body.card]
                    ELSE Err("Deserialize")

(***************************************************************************)
(* Inputs                                                                  *)
(***************************************************************************)
\* issuers presented to the builder, and one more that never is
BuilderIssuers == {Fill(i) : i \in 0..(NumBlocks - 1)}

Issuers == {Fill(i) : i \in 0..NumBlocks}

\* serial numbers, made as the callers make them: j.to_le_bytes()
Serials == {to_le_bytes(j) : j \in 0..(UniverseSize - 1)}

NoArg == [kind |-> "none"]

NoRet == [kind |-> "none"]

NoEq == [s |-> 0, a |-> <<>>, b |-> 0]

BuilderIdle ==
    /\ approxBuilders = {} /\ approxItems = {}
    /\ exactBuilders = {} /\ exactItems = {}
    /\ approxRibbons = EmptyMap /\ exactRibbons = EmptyMap
    /\ clubcard = NoClubcard

(***************************************************************************)
(* Equation derivation on its own: as_query and as_equation applied to     *)
(* every issuer, serial, timestamp list, width and revocation flag.        *)
(***************************************************************************)
EqTimestampLists ==
    {None, Some(<<>>), Some(<< <<Fill(0), to_le_bytes(100)>> >>)}

EqArgs ==
    [kind : {"equation"}, issuer : Issuers, serial : Serials,
     log_timestamps : EqTimestampLists, m : 0..MaxM, revoked : BOOLEAN]

InitEquation ==
    /\ hashSeed \in 0..MaxSeed
    /\ phase = "equation"
    /\ BuilderIdle
    /\ arg \in EqArgs
    /\ ret = [kind |-> "equation", hasQuery |-> FALSE, query |-> NoEq,
              hasItem |-> FALSE, item |-> NoEq]

AsQuery ==
    /\ phase = "equation"
    /\ ~ret.hasQuery
    /\ ret' = [ret EXCEPT !.hasQuery = TRUE,
                          !.query = as_query(CRLiteQuery(arg.issuer, arg.serial,
                                                         arg.log_timestamps), arg.m)]
    /\ UNCHANGED <<hashSeed, phase, buildVars, arg>>

AsEquation ==
    /\ phase = "equation"
    /\ ~ret.hasItem
    /\ ret' = [ret EXCEPT !.hasItem = TRUE,
                          !.item = as_equation(IF arg.revoked
                                               THEN revoked(arg.issuer, arg.serial)
                                               ELSE not_revoked(arg.issuer, arg.serial),
                                               arg.m)]
    /\ UNCHANGED <<hashSeed, phase, buildVars, arg>>

NextEquation == AsQuery \/ AsEquation

SpecEquation == InitEquation /\ [][NextEquation]_vars

\* C7: the builder item's equation has the start and the four coefficient words of
\* the query's equation for the same issuer and serial, whatever timestamp list the
\* query carries, and its target is 0 when the item is revoked and 1 when it is not.
C7_SameEquation ==
    (ret.kind = "equation" /\ ret.hasQuery /\ ret.hasItem) =>
        /\ ret.item.s = ret.query.s
        /\ ret.item.a = ret.query.a
        /\ ret.item.b = (IF arg.revoked THEN 0 ELSE 1)

C7_Witness ==
    /\ ret.kind = "equation" /\ ret.hasQuery /\ ret.hasItem
    /\ arg.log_timestamps.some /\ Len(arg.log_timestamps.list) > 0
    /\ ~arg.revoked /\ ret.item.b = 1
    /\ arg.m > 1 /\ ret.item.s > 0

\* C9 as stated: the low bit of coeffs[0] is 1 and the start lies in [0, m).
C9_StartBelowM ==
    /\ (ret.kind = "equation" /\ ret.hasQuery) =>
            (0 \in ret.query.a[1] /\ 0 <= ret.query.s /\ ret.query.s < arg.m)
    /\ (ret.kind = "equation" /\ ret.hasItem) =>
            (0 \in ret.item.a[1] /\ 0 <= ret.item.s /\ ret.item.s < arg.m)

\* C9 amended: the low bit of coeffs[0] is 1 and the start lies in [0, max(1, m)):
\* below m for every m >= 1, and 0 for m = 0.
C9_StartBelowMax1M ==
    /\ (ret.kind = "equation" /\ ret.hasQuery) =>
            (0 \in ret.query.a[1] /\ 0 <= ret.query.s
             /\ ret.query.s < Max2(1, arg.m))
    /\ (ret.kind = "equation" /\ ret.hasItem) =>
            (0 \in ret.item.a[1] /\ 0 <= ret.item.s
             /\ ret.item.s < Max2(1, arg.m))

\* a width of 0, on a digest whose first byte is even (the low bit is forced)
C9_Witness ==
    /\ ret.kind = "equation" /\ ret.hasQuery /\ ret.hasItem
    /\ arg.m = 0 /\ ret.query.s = 0 /\ ret.item.s = 0
    /\ Bit(Sha256(arg.issuer \o arg.serial)[1], 0) = 0

(***************************************************************************)
(* The coverage adapter on its own: in_universe on every coverage map and  *)
(* timestamp list, from_mozilla_ct_logs_json on every document.            *)
(***************************************************************************)
Coverages ==
    {EmptyMap,
     MapInsert(EmptyMap, Fill(0), <<to_le_bytes(10), to_le_bytes(20)>>),
     MapInsert(EmptyMap, Fill(0), <<to_le_bytes(0), U64Max>>),
     MapInsert(MapInsert(EmptyMap, Fill(0), <<to_le_bytes(10), to_le_bytes(20)>>),
               Fill(1), <<to_le_bytes(20), to_le_bytes(20)>>)}

\* 266 = 256 + 10: its low byte lies inside [10, 20], the value does not
Timestamps == {to_le_bytes(9), to_le_bytes(10), to_le_bytes(20), to_le_bytes(21),
               to_le_bytes(266)}

LogTimestampLists ==
    {None} \cup {Some(l) : l \in SeqsUpTo({Fill(0), Fill(1)} \X Timestamps, MaxTimestamps)}

UniverseArgs ==
    [kind : {"in_universe"},
     q : {CRLiteQuery(Fill(0), to_le_bytes(0), ts) : ts \in LogTimestampLists},
     universe : Coverages]

\* LogID strings: two that decode to 32 bytes, and malformed ones
IdZero == Rep("A", 43) \o <<"=">>
IdFour == <<"B">> \o Rep("A", 42) \o <<"=">>
IdTooLong == Rep("A", 44)
IdTooShort == Rep("A", 4)
IdBadSymbol == Rep("A", 42) \o <<"!", "=">>
IdUnpadded == Rep("A", 43)
IdTrailingBits == Rep("A", 42) \o <<"B", "=">>

JsonObjects ==
    {JsonObject(JsonString(IdZero), JsonNumber(to_le_bytes(20)), JsonNumber(to_le_bytes(10))),
     JsonObject(JsonString(IdZero), JsonNumber(to_le_bytes(40)), JsonNumber(to_le_bytes(30))),
     JsonObject(JsonString(IdFour), JsonNumber(U64Max), JsonNumber(to_le_bytes(0))),
     JsonObject(JsonString(IdTooLong), JsonNumber(to_le_bytes(6)), JsonNumber(to_le_bytes(5))),
     JsonObject(JsonString(IdTooShort), JsonNumber(to_le_bytes(6)), JsonNumber(to_le_bytes(5))),
     JsonObject(JsonString(IdBadSymbol), JsonNumber(to_le_bytes(6)), JsonNumber(to_le_bytes(5))),
     JsonObject(JsonString(IdUnpadded), JsonNumber(to_le_bytes(6)), JsonNumber(to_le_bytes(5))),
     JsonObject(JsonString(IdTrailingBits), JsonNumber(to_le_bytes(6)), JsonNumber(to_le_bytes(5))),
     JsonObject(JsonString(IdZero), JsonNumber(to_le_bytes(6)), JsonAbsent),
     JsonObject(JsonString(IdZero), JsonNegative, JsonNumber(to_le_bytes(5))),
     JsonObject(JsonNumber(to_le_bytes(7)), JsonNumber(to_le_bytes(6)), JsonNumber(to_le_bytes(5)))}

Documents ==
    {[list |-> FALSE, records |-> <<>>]}
    \cup {[list |-> TRUE, records |-> rs] : rs \in SeqsUpTo(JsonObjects, MaxRecords)}

JsonArgs == [kind : {"json"}, reader : Documents]

InitCoverage ==
    /\ hashSeed = 0
    /\ phase = "coverage"
    /\ BuilderIdle
    /\ arg \in UniverseArgs \cup JsonArgs
    /\ ret = NoRet

InUniverse ==
    /\ phase = "coverage"
    /\ arg.kind = "in_universe"
    /\ ret = NoRet
    /\ ret' = [kind |-> "in_universe", value |-> in_universe(arg.q, arg.universe)]
    /\ UNCHANGED <<hashSeed, phase, buildVars, arg>>

FromMozillaCtLogsJson ==
    /\ phase = "coverage"
    /\ arg.kind = "json"
    /\ ret = NoRet
    /\ ret' = [kind |-> "json", value |-> from_mozilla_ct_logs_json(arg.reader)]
    /\ UNCHANGED <<hashSeed, phase, buildVars, arg>>

NextCoverage == InUniverse \/ FromMozillaCtLogsJson

SpecCoverage == InitCoverage /\ [][NextCoverage]_vars

\* a pair of the query lies in the coverage: its log is a key and its timestamp is
\* inside the log's interval, both bounds included
PairCovered(pair, universe) ==
    /\ pair[1] \in DOMAIN universe
    /\ U64Le(universe[pair[1]][1], pair[2])
    /\ U64Le(pair[2], universe[pair[1]][2])

\* C6: in_universe is true exactly when the query carries a list and some pair of it
\* is covered; None and the empty list give false.
C6_InUniverseIffCoveredPair ==
    ret.kind = "in_universe" =>
        /\ ret.value =
            (/\ arg.q.log_timestamps.some
             /\ \E i \in 1..Len(arg.q.log_timestamps.list) :
                    PairCovered(arg.q.log_timestamps.list[i], arg.universe))
        /\ (~arg.q.log_timestamps.some \/ arg.q.log_timestamps.list = <<>>)
                => ret.value = FALSE

\* a first pair outside its interval, a second one on the upper bound
C6_Witness ==
    /\ ret.kind = "in_universe" /\ ret.value = TRUE
    /\ Len(arg.q.log_timestamps.list) = 2
    /\ ~PairCovered(arg.q.log_timestamps.list[1], arg.universe)
    /\ arg.q.log_timestamps.list[2][1] \in DOMAIN arg.universe
    /\ arg.q.log_timestamps.list[2][2] = arg.universe[arg.q.log_timestamps.list[2][1]][2]

\* a record is well formed: its LogID is valid base64 of exactly 32 bytes
WellFormed(entry) == B64Decode(entry.LogID).ok /\ Len(B64Decode(entry.LogID).bytes) = IdLen

Parses(doc) ==
    /\ doc.list
    /\ \A i \in 1..Len(doc.records) :
        /\ doc.records[i].LogID.t = "string"
        /\ doc.records[i].MaxTimestamp.t = "number"
        /\ doc.records[i].MinTimestamp.t = "number"

EntryOf(object) ==
    [LogID |-> object.LogID.s, MaxTimestamp |-> object.MaxTimestamp.n,
     MinTimestamp |-> object.MinTimestamp.n]

\* C8 as stated: an unparseable document gives the empty map; a parseable one gives
\* the map of exactly its well-formed records, each mapped to its own interval.
C8_EveryWellFormedRecordKept ==
    ret.kind = "json" =>
        /\ ~Parses(arg.reader) => ret.value = EmptyMap
        /\ Parses(arg.reader) =>
            /\ DOMAIN ret.value =
                {B64Decode(EntryOf(arg.reader.records[i]).LogID).bytes :
                    i \in {j \in 1..Len(arg.reader.records) :
                            WellFormed(EntryOf(arg.reader.records[j]))}}
            /\ \A i \in 1..Len(arg.reader.records) :
                WellFormed(EntryOf(arg.reader.records[i])) =>
                    ret.value[B64Decode(EntryOf(arg.reader.records[i]).LogID).bytes]
                        = <<EntryOf(arg.reader.records[i]).MinTimestamp,
                            EntryOf(arg.reader.records[i]).MaxTimestamp>>

\* C8 amended: the keys are exactly the log ids of the well-formed records, and each
\* key maps to the interval of the last well-formed record that carries it.
C8_LastWellFormedRecordKept ==
    ret.kind = "json" =>
        /\ ~Parses(arg.reader) => ret.value = EmptyMap
        /\ Parses(arg.reader) =>
            /\ DOMAIN ret.value =
                {B64Decode(EntryOf(arg.reader.records[i]).LogID).bytes :
                    i \in {j \in 1..Len(arg.reader.records) :
                            WellFormed(EntryOf(arg.reader.records[j]))}}
            /\ \A i \in 1..Len(arg.reader.records) :
                (/\ WellFormed(EntryOf(arg.reader.records[i]))
                 /\ ~\E later \in (i + 1)..Len(arg.reader.records) :
                        /\ WellFormed(EntryOf(arg.reader.records[later]))
                        /\ B64Decode(EntryOf(arg.reader.records[later]).LogID).bytes
                            = B64Decode(EntryOf(arg.reader.records[i]).LogID).bytes)
                => ret.value[B64Decode(EntryOf(arg.reader.records[i]).LogID).bytes]
                        = <<EntryOf(arg.reader.records[i]).MinTimestamp,
                            EntryOf(arg.reader.records[i]).MaxTimestamp>>

\* a malformed record ahead of a well-formed one: the map holds the second alone
C8_Witness ==
    /\ ret.kind = "json"
    /\ Parses(arg.reader)
    /\ Len(arg.reader.records) = 2
    /\ ~WellFormed(EntryOf(arg.reader.records[1]))
    /\ WellFormed(EntryOf(arg.reader.records[2]))
    /\ DOMAIN ret.value = {B64Decode(EntryOf(arg.reader.records[2]).LogID).bytes}

(***************************************************************************)
(* The build sequence and the built Clubcard.  The caller follows the      *)
(* sequence of builder.rs's test: approximate builders fed the revoked     *)
(* items, collect_approx_ribbons, exact builders fed every serial of the   *)
(* block's universe in ascending order with its revocation status,         *)
(* collect_exact_ribbons, build; then queries and (de)serialization.       *)
(***************************************************************************)
BuildCoverages ==
    {MapInsert(EmptyMap, Fill(0), <<to_le_bytes(0), U64Max>>),
     MapInsert(MapInsert(EmptyMap, Fill(0), <<to_le_bytes(10), to_le_bytes(20)>>),
               Fill(1), <<to_le_bytes(20), to_le_bytes(200)>>)}

QueryTimestampLists ==
    {None, Some(<<>>),
     Some(<< <<Fill(0), to_le_bytes(100)>> >>),
     Some(<< <<Fill(1), to_le_bytes(100)>> >>)}

\* every issuer, every serial of the universe and one outside it
Queries ==
    {CRLiteQuery(issuer, serial, ts) :
        issuer \in Issuers,
        serial \in Serials \cup {to_le_bytes(UniverseSize)},
        ts \in QueryTimestampLists}

Init ==
    /\ hashSeed \in {0, 1}
    /\ phase = "approx"
    /\ BuilderIdle
    /\ arg = NoArg
    /\ ret = NoRet

\* ClubcardBuilder::get_approx_builder
GetApproxBuilder(issuer) ==
    /\ phase = "approx"
    /\ issuer \notin approxBuilders
    /\ approxBuilders' = approxBuilders \cup {issuer}
    /\ UNCHANGED <<hashSeed, phase, approxItems, exactBuilders, exactItems,
                   approxRibbons, exactRibbons, clubcard, arg, ret>>

\* RibbonBuilder::insert on an approximate builder: a revoked item
ApproxInsert(issuer, serial) ==
    /\ phase = "approx"
    /\ issuer \in approxBuilders
    /\ revoked(issuer, serial) \notin approxItems
    /\ approxItems' = approxItems \cup {revoked(issuer, serial)}
    /\ UNCHANGED <<hashSeed, phase, approxBuilders, exactBuilders, exactItems,
                   approxRibbons, exactRibbons, clubcard, arg, ret>>

\* ApproximateRibbon::from on every builder, then collect_approx_ribbons
CollectApproxRibbons ==
    /\ phase = "approx"
    /\ approxRibbons' =
            [id \in approxBuilders |-> ApproximateRibbonFrom(ItemsOf(approxItems, id))]
    /\ phase' = "exact"
    /\ UNCHANGED <<hashSeed, approxBuilders, approxItems, exactBuilders, exactItems,
                   exactRibbons, clubcard, arg, ret>>

BlockComplete(issuer) == Cardinality(ItemsOf(exactItems, issuer)) = UniverseSize

\* ClubcardBuilder::get_exact_builder, block after block
GetExactBuilder(issuer) ==
    /\ phase = "exact"
    /\ issuer \in approxBuilders \ exactBuilders
    /\ \A other \in approxBuilders \ exactBuilders : issuer[1] <= other[1]
    /\ \A started \in exactBuilders : BlockComplete(started)
    /\ exactBuilders' = exactBuilders \cup {issuer}
    /\ UNCHANGED <<hashSeed, phase, approxBuilders, approxItems, exactItems,
                   approxRibbons, exactRibbons, clubcard, arg, ret>>

\* RibbonBuilder::insert on an exact builder: the next serial of the universe,
\* revoked exactly when the approximate builder was fed it
ExactInsert(issuer) ==
    /\ phase = "exact"
    /\ issuer \in exactBuilders
    /\ ~BlockComplete(issuer)
    /\ LET serial == to_le_bytes(Cardinality(ItemsOf(exactItems, issuer)))
       IN exactItems' = exactItems \cup
            {IF revoked(issuer, serial) \in approxItems
             THEN revoked(issuer, serial)
             ELSE not_revoked(issuer, serial)}
    /\ UNCHANGED <<hashSeed, phase, approxBuilders, approxItems, exactBuilders,
                   approxRibbons, exactRibbons, clubcard, arg, ret>>

\* ExactRibbon::from on every builder, then collect_exact_ribbons; a system
\* that cannot be solved is a build error
CollectExactRibbons ==
    /\ phase = "exact"
    /\ exactBuilders = approxBuilders
    /\ \A started \in exactBuilders : BlockComplete(started)
    /\ LET ribbons == [id \in exactBuilders |-> ExactRibbonFrom(ItemsOf(exactItems, id))]
       IN IF \A id \in exactBuilders : ribbons[id].ok
          THEN exactRibbons' = ribbons /\ phase' = "collected"
          ELSE exactRibbons' = exactRibbons /\ phase' = "failed"
    /\ UNCHANGED <<hashSeed, approxBuilders, approxItems, exactBuilders, exactItems,
                   approxRibbons, clubcard, arg, ret>>

StripOk(ribbons) ==
    [id \in DOMAIN ribbons |-> [m |-> ribbons[id].m, solution |-> ribbons[id].solution]]

\* ClubcardBuilder::build
Build(universe) ==
    /\ phase = "collected"
    /\ IF DOMAIN approxRibbons = DOMAIN exactRibbons
       THEN /\ clubcard' = Clubcard(StripOk(approxRibbons), StripOk(exactRibbons), universe)
            /\ phase' = "built"
       ELSE /\ clubcard' = clubcard
            /\ phase' = "failed"
    /\ UNCHANGED <<hashSeed, approxBuilders, approxItems, exactBuilders, exactItems,
                   approxRibbons, exactRibbons, arg, ret>>

\* Clubcard::contains and Clubcard::unchecked_contains on one query.  The built
\* Clubcard is immutable, so a run observes one operation on it: a query, or
\* to_bytes followed by from_bytes.
Contains(q) ==
    /\ phase = "built"
    /\ ret = NoRet
    /\ arg' = [kind |-> "query", q |-> q]
    /\ ret' = [kind |-> "contains", value |-> contains(clubcard, q),
               unchecked |-> unchecked_contains(clubcard, q)]
    /\ UNCHANGED <<hashSeed, phase, buildVars>>

\* Clubcard::to_bytes on the built Clubcard
ToBytes ==
    /\ phase = "built"
    /\ ret = NoRet
    /\ \E order \in KeyOrders(clubcard.universe) :
        /\ arg' = [kind |-> "order", order |-> order]
        /\ ret' = [kind |-> "to_bytes", value |-> to_bytes(clubcard, order)]
    /\ UNCHANGED <<hashSeed, phase, buildVars>>

\* where a serialized Clubcard is cut: near both ends and at every 32nd byte
CutPoints(n) ==
    {k \in VersionLen..(n - 1) : k < VersionLen + 10 \/ k > n - 10 \/ k % 32 = 0}

ForeignTags == {<<0, 0>>, <<255, 0>>, <<0, 255>>, <<254, 255>>}

\* the buffers handed to from_bytes, made from a serialized Clubcard: the buffer
\* itself, cut short, shorter than the version tag, under a foreign tag (with the
\* whole body, half of it, none of it), and with the first table's count beyond
\* the buffer
InputBuffers(valid) ==
    {[form |-> "valid", bytes |-> valid]}
    \cup {[form |-> "truncated", bytes |-> SubSeq(valid, 1, n)] : n \in CutPoints(Len(valid))}
    \cup {[form |-> "short", bytes |-> SubSeq(valid, 1, n)] : n \in 0..(VersionLen - 1)}
    \cup {[form |-> "foreign", bytes |-> tag \o SubSeq(valid, VersionLen + 1, n)] :
            tag \in ForeignTags, n \in {Len(valid), Len(valid) \div 2, VersionLen}}
    \cup {[form |-> "invalid",
           bytes |-> [valid EXCEPT ![VersionLen + WordBytes] = 255]]}

\* Clubcard::from_bytes on a buffer made from the last to_bytes output
FromBytes ==
    /\ phase = "built"
    /\ ret.kind = "to_bytes"
    /\ \E input \in InputBuffers(ret.value.bytes) :
        /\ arg' = [kind |-> "bytes", form |-> input.form, bytes |-> input.bytes,
                   origin |-> ret.value.bytes]
        /\ ret' = [kind |-> "from_bytes", value |-> from_bytes(input.bytes)]
    /\ UNCHANGED <<hashSeed, phase, buildVars>>

Next ==
    \/ ToBytes
    \/ FromBytes
    \/ \E issuer \in BuilderIssuers : GetApproxBuilder(issuer)
    \/ \E issuer \in BuilderIssuers, serial \in Serials : ApproxInsert(issuer, serial)
    \/ CollectApproxRibbons
    \/ \E issuer \in BuilderIssuers : GetExactBuilder(issuer)
    \/ \E issuer \in BuilderIssuers : ExactInsert(issuer)
    \/ CollectExactRibbons
    \/ \E universe \in BuildCoverages : Build(universe)
    \/ \E q \in Queries : Contains(q)

Spec == Init /\ [][Next]_vars

C2_ExactOnUniverse ==
    phase = "built" =>
        \A it \in exactItems :
            \A ts \in QueryTimestampLists :
                unchecked_contains(clubcard, CRLiteQuery(it.issuer, it.serial, ts))
                    = it.revoked

\* a block holding revoked and not revoked items, one of each queried
C2_Witness ==
    /\ phase = "built"
    /\ ret.kind = "contains"
    /\ \E it \in exactItems :
        /\ it.issuer = arg.q.issuer /\ it.serial = arg.q.serial
        /\ ~it.revoked /\ ret.unchecked = FALSE
        /\ \E other \in exactItems :
            /\ other.issuer = it.issuer /\ other.revoked
            /\ unchecked_contains(clubcard, FromItem(other))

\* C3: a query whose issuer was never presented to the builder gets false from
\* unchecked_contains, for every serial and every timestamp list.
C3_UnknownBlockIsFalse ==
    (ret.kind = "contains" /\ arg.q.issuer \notin approxBuilders \cup exactBuilders)
        => ret.unchecked = FALSE

C3_Witness ==
    /\ ret.kind = "contains"
    /\ arg.q.issuer \notin approxBuilders \cup exactBuilders
    /\ DOMAIN clubcard.exact # {}
    /\ arg.q.log_timestamps.some /\ arg.q.log_timestamps.list # <<>>
    /\ ret.unchecked = FALSE

\* C4: to_bytes succeeds, from_bytes of its output succeeds, and the Clubcard read
\* back answers contains and unchecked_contains as the original does, on every query.
C4_RoundTrip ==
    /\ ret.kind = "to_bytes" => ret.value.tag = "Ok"
    /\ (ret.kind = "from_bytes" /\ arg.bytes = arg.origin) =>
        /\ ret.value.tag = "Ok"
        /\ \A q \in Queries :
            /\ contains(ret.value.card, q) = contains(clubcard, q)
            /\ unchecked_contains(ret.value.card, q) = unchecked_contains(clubcard, q)

\* a Clubcard with a block of revoked and not revoked items and two covered logs
C4_Witness ==
    /\ ret.kind = "from_bytes" /\ arg.bytes = arg.origin
    /\ ret.value.tag = "Ok"
    /\ Cardinality(DOMAIN clubcard.universe) = 2
    /\ \E q \in Queries : contains(ret.value.card, q) = "Member"
    /\ \E q \in Queries : contains(ret.value.card, q) = "Nonmember"
    /\ \E q \in Queries : contains(ret.value.card, q) = "NotInUniverse"

IsStrictPrefix(short, long) ==
    Len(short) < Len(long) /\ short = SubSeq(long, 1, Len(short))

\* C5: a buffer whose first two bytes are not the version tag gives
\* UnsupportedVersion whatever follows; a buffer with the tag and a body cut short,
\* or a body whose first count exceeds the buffer, gives Deserialize.
C5_VersionGate ==
    ret.kind = "from_bytes" =>
        /\ (Len(arg.bytes) >= VersionLen
            /\ SubSeq(arg.bytes, 1, VersionLen) # <<255, 255>>)
                => ret.value.tag = "UnsupportedVersion"
        /\ (Len(arg.bytes) >= VersionLen
            /\ SubSeq(arg.bytes, 1, VersionLen) = <<255, 255>>
            /\ (IsStrictPrefix(arg.bytes, arg.origin) \/ arg.form = "invalid"))
                => ret.value.tag = "Deserialize"

\* a foreign tag that shares its first byte with the version, ahead of a body cut short
C5_Witness ==
    /\ ret.kind = "from_bytes"
    /\ arg.form = "foreign"
    /\ Len(arg.bytes) > VersionLen /\ Len(arg.bytes) < Len(arg.origin)
    /\ arg.bytes[1] = 255
    /\ ret.value.tag = "UnsupportedVersion"

\* C10: from_bytes returns Ok or a ClubcardError on every buffer, and
\* Err(Deserialize) on a buffer shorter than the version tag.
C10_TotalOnShortBuffers ==
    ret.kind = "from_bytes" =>
        /\ ret.value.tag \in {"Ok", "Serialize", "Deserialize", "UnsupportedVersion"}
        /\ Len(arg.bytes) < VersionLen => ret.value.tag = "Deserialize"

====
